---- MODULE Spec2Model ----
(***************************************************************************)
(* Request/response pipeline of the aioimdb client (aioimdb/client.py):    *)
(* identifier validation, the title redirection check, the authenticated   *)
(* GET, status classification, payload decoding and the facade operations  *)
(* built on them.  Every await of the code is a suspension point of the    *)
(* model: an operation is started by Call and resumed by the transport or  *)
(* the auth provider answering.                                            *)
(***************************************************************************)
EXTENDS Integers, Sequences, FiniteSets, TLC

VARIABLES
    exclude_episodes,   \* Imdb.exclude_episodes, set by the constructor
    locale,             \* Imdb.locale, set by the constructor
    session,            \* Imdb.session and the use made of the context manager
    task,               \* task[t]: the coroutine of caller t
    probe               \* a direct call of a static method of Imdb

vars == <<exclude_episodes, locale, session, task, probe>>

(***************************************************************************)
(* Bounds                                                                  *)
(***************************************************************************)
MaxTrailing == 2       \* characters tried after a nine-character identifier
MaxContexts == 2       \* times the client is entered as a context manager
MaxConcurrent == 2     \* operations awaited at once on one client

\* the caller awaiting operations on the client
Tasks == {1}

(***************************************************************************)
(* Python values.  Every value is a record with a type tag so that values  *)
(* of different Python types can be compared.                              *)
(***************************************************************************)
PyNone == [t |-> "NoneType"]
PyBool(b) == [t |-> "bool", b |-> b]
PyInt(n) == [t |-> "int", n |-> n]
PyStr(s) == [t |-> "str", s |-> s]
\* a str whose characters matter (prefix tests): the sequence of them
PyChars(chars) == [t |-> "str", chars |-> chars]
PyList(a) == [t |-> "list", a |-> a]
\* a dict is a sequence of <<key, value>> pairs with distinct keys
PyDict(kv) == [t |-> "dict", kv |-> kv]

HasKey(d, k) == \E i \in 1..Len(d.kv) : d.kv[i][1] = k
Item(d, k) == d.kv[CHOOSE i \in 1..Len(d.kv) : d.kv[i][1] = k][2]

\* bool(v) of a Python value
Truthy(v) ==
    CASE v.t = "NoneType" -> FALSE
      [] v.t = "bool" -> v.b
      [] v.t = "int" -> v.n # 0
      [] v.t = "str" -> IF "s" \in DOMAIN v THEN v.s # "" ELSE Len(v.chars) > 0
      [] v.t = "list" -> Len(v.a) > 0
      [] v.t = "dict" -> Len(v.kv) > 0
      [] OTHER -> TRUE

\* dict.get(k) (default None)
DictGet(d, k) == IF HasKey(d, k) THEN Item(d, k) ELSE PyNone

\* The exception v[k] raises for a string key k, "" when it raises none
SubscriptError(v, k) ==
    IF v.t = "dict"
    THEN IF HasKey(v, k) THEN "" ELSE "KeyError"
    ELSE "TypeError"

(***************************************************************************)
(* Identifiers: a text identifier is the sequence of its characters.       *)
(* "U+212A" (KELVIN SIGN), "U+017F" (LONG S), "U+00E9" (e acute) and       *)
(* "U+0661" (ARABIC-INDIC DIGIT ONE) stand for those single characters.    *)
(***************************************************************************)
IdStr(chars) == [t |-> "str", chars |-> chars]
IdNone == [t |-> "NoneType", chars |-> <<>>]
IdInt == [t |-> "int", chars |-> <<>>]
IdBytes == [t |-> "bytes", chars |-> <<>>]
NoId == [t |-> "absent", chars |-> <<>>]

AsciiLower == {"a", "b", "c", "d", "e", "f", "g", "h", "i", "j", "k", "l", "m",
               "n", "o", "p", "q", "r", "s", "t", "u", "v", "w", "x", "y", "z"}
AsciiUpper == {"A", "B", "C", "D", "E", "F", "G", "H", "I", "J", "K", "L", "M",
               "N", "O", "P", "Q", "R", "S", "T", "U", "V", "W", "X", "Y", "Z"}
AsciiDigit == {"0", "1", "2", "3", "4", "5", "6", "7", "8", "9"}
AsciiLetter == AsciiLower \cup AsciiUpper

\* Characters outside ASCII whose case folding is an ASCII letter: with
\* re.IGNORECASE on a str pattern the class [a-zA-Z] matches them too.
FoldsToAscii == {"U+0130", "U+0131", "U+017F", "U+212A"}

PrefixLetters == 2     \* {2} of match_id
PrefixDigits == 7      \* {7} of match_id

\* [a-zA-Z] under re.IGNORECASE
MatchesLetterClass(c) == c \in AsciiLetter \cup FoldsToAscii
\* [0-9]
MatchesDigitClass(c) == c \in AsciiDigit

\* re.match(r'[a-zA-Z]{2}[0-9]{7}', s, re.IGNORECASE) is not None
ReMatchId(chars) ==
    /\ Len(chars) >= PrefixLetters + PrefixDigits
    /\ \A i \in 1..PrefixLetters : MatchesLetterClass(chars[i])
    /\ \A i \in (PrefixLetters + 1)..(PrefixLetters + PrefixDigits) :
            MatchesDigitClass(chars[i])

\* validate_imdb_id: TRUE when it returns, FALSE when it raises ValueError
\* (re.match raises TypeError on a non-str, .group() AttributeError on None)
validate_imdb_id(imdb_id) ==
    IF imdb_id.t # "str" THEN FALSE ELSE ReMatchId(imdb_id.chars)

(***************************************************************************)
(* Search text.  "U+00E9" and "U+00C9" are e acute in lower and upper case *)
(***************************************************************************)
UpperLetters == <<"A", "B", "C", "D", "E", "F", "G", "H", "I", "J", "K", "L",
                  "M", "N", "O", "P", "Q", "R", "S", "T", "U", "V", "W", "X",
                  "Y", "Z", "U+00C9">>
LowerLetters == <<"a", "b", "c", "d", "e", "f", "g", "h", "i", "j", "k", "l",
                  "m", "n", "o", "p", "q", "r", "s", "t", "u", "v", "w", "x",
                  "y", "z", "U+00E9">>

\* str.lower() of one character
Lower(c) ==
    IF \E i \in 1..Len(UpperLetters) : UpperLetters[i] = c
    THEN LowerLetters[CHOOSE i \in 1..Len(UpperLetters) : UpperLetters[i] = c]
    ELSE c

\* str.isalnum() of one character
IsAlnum(c) == c \in AsciiLetter \cup AsciiDigit \cup {"U+00E9", "U+00C9"}
\* \w of a str pattern: alphanumeric or the underscore
IsWord(c) == IsAlnum(c) \/ c = "_"

RECURSIVE DropNonWord(_)
DropNonWord(chars) ==
    IF chars = <<>> \/ IsWord(Head(chars)) THEN chars
    ELSE DropNonWord(Tail(chars))

\* re.sub(r'\W+', '_', item)
RECURSIVE SubNonWord(_)
SubNonWord(chars) ==
    IF chars = <<>> THEN <<>>
    ELSE IF IsWord(Head(chars)) THEN <<Head(chars)>> \o SubNonWord(Tail(chars))
    ELSE <<"_">> \o SubNonWord(DropNonWord(chars))

RECURSIVE LStrip(_)
LStrip(chars) ==
    IF chars # <<>> /\ Head(chars) = "_" THEN LStrip(Tail(chars)) ELSE chars
RECURSIVE RStrip(_)
RStrip(chars) ==
    IF chars # <<>> /\ chars[Len(chars)] = "_"
    THEN RStrip(SubSeq(chars, 1, Len(chars) - 1)) ELSE chars
\* .strip('_')
Strip(chars) == RStrip(LStrip(chars))

\* item = re.sub(r'\W+', '_', item).strip('_')
NormalizeItem(chars) == Strip(SubNonWord(chars))

\* urllib.parse.quote of one character: letters, digits and _.-~/ are kept,
\* any other character becomes the %XX of its UTF-8 bytes (one element here)
QuoteChar(c) ==
    IF c \in AsciiLetter \cup AsciiDigit \cup {"_", ".", "-", "~", "/"} THEN c
    ELSE CASE c = " " -> "%20"
           [] c = "!" -> "%21"
           [] c = ":" -> "%3A"
           [] c = "U+00E9" -> "%C3%A9"
           [] c = "U+00C9" -> "%C3%89"
           [] OTHER -> "%3F"
\* urllib.parse.unquote of one element
UnquoteChar(q) ==
    CASE q = "%20" -> " "
      [] q = "%21" -> "!"
      [] q = "%3A" -> ":"
      [] q = "%C3%A9" -> "U+00E9"
      [] q = "%C3%89" -> "U+00C9"
      [] q = "%3F" -> "?"
      [] OTHER -> q
quote(chars) == [i \in 1..Len(chars) |-> QuoteChar(chars[i])]
unquote(chars) == [i \in 1..Len(chars) |-> UnquoteChar(chars[i])]

\* _query_first_alpha_num: the first alphanumeric character of
\* query.lower(), "" when it raises ValueError
_query_first_alpha_num(chars) ==
    IF \E i \in 1..Len(chars) : IsAlnum(Lower(chars[i]))
    THEN Lower(chars[CHOOSE i \in 1..Len(chars) :
                        /\ IsAlnum(Lower(chars[i]))
                        /\ \A j \in 1..(i - 1) : ~IsAlnum(Lower(chars[j]))])
    ELSE ""

(***************************************************************************)
(* Exceptions and outcomes of an operation                                 *)
(***************************************************************************)
\* isinstance(exc, LookupError): KeyError derives from LookupError
IsLookupError(exc) == exc \in {"LookupError", "KeyError", "IndexError"}
\* isinstance(exc, ValueError): json.JSONDecodeError derives from ValueError
IsValueError(exc) == exc \in {"ValueError", "JSONDecodeError"}

\* Request paths: pre + identifier + post
Path(pre, id, post) == [pre |-> pre, id |-> id, post |-> post]
NoPath == Path("", NoId, "")

\* Response bodies.  call = <<>> : the text is a JSON document (inner =
\* "json") or text that is no JSON (inner = "invalid"); otherwise the text is
\* head call(inner): head the text before the call name, call the characters
\* of the call name.
Body(head, call, inner, value) ==
    [head |-> head, call |-> call, inner |-> inner, value |-> value]
NoBody == Body("", <<>>, "none", PyNone)

\* What an error message carries of a response, next to its status
TextOfBody(b) == [of |-> "body", body |-> b]
\* str() of r.text, the coroutine method itself (it is not called)
TextOfBoundMethod == [of |-> "bound method ClientResponse.text", body |-> NoBody]
NoText == [of |-> "", body |-> NoBody]

Return(v) ==
    [kind |-> "return", exc |-> "", msg |-> "", id |-> NoId, path |-> NoPath,
     status |-> 0, text |-> NoText, value |-> v]
Raise(exc, msg) ==
    [kind |-> "raise", exc |-> exc, msg |-> msg, id |-> NoId, path |-> NoPath,
     status |-> 0, text |-> NoText, value |-> PyNone]
Pending == [Raise("", "") EXCEPT !.kind = "pending"]

InvalidImdbId == Raise("ValueError", "invalid imdb id")

\* _title_not_found(msg): LookupError(f'Title not found.{msg}')
TitleNotFound == Raise("LookupError", "Title not found.")
TitleNotFoundRedirection(imdb_id) ==
    [Raise("LookupError", "Title not found. {imdb_id} is a redirection imdb id")
        EXCEPT !.id = imdb_id]

(***************************************************************************)
(* ENDPOINTS.  An operation name is <<h, r>>: h its first nine characters  *)
(* (all of it when shorter) and r the rest; a template is pre{imdb_id}post *)
(***************************************************************************)
Entry(h, r, pre, post) == [name |-> <<h, r>>, pre |-> pre, post |-> post]

ENDPOINTS ==
    { Entry("get_name", "", "/name/", "/fulldetails"),
      Entry("get_name_", "filmography", "/name/", "/filmography"),
      Entry("get_name_", "images", "/name/", "/images"),
      Entry("get_name_", "videos", "/name/", "/videos"),
      Entry("get_title", "_credits", "/title/", "/fullcredits"),
      Entry("get_title", "_quotes", "/title/", "/quotes"),
      Entry("get_title", "_ratings", "/title/", "/ratings"),
      Entry("get_title", "_genres", "/title/", "/genres"),
      Entry("get_title", "_similarities", "/title/", "/similarities"),
      Entry("get_title", "_awards", "/title/", "/awards"),
      Entry("get_title", "_connections", "/title/", "/connections"),
      Entry("get_title", "_releases", "/title/", "/releases"),
      Entry("get_title", "_versions", "/title/", "/versions"),
      Entry("get_title", "_plot", "/title/", "/plot"),
      Entry("get_title", "_plot_synopsis", "/title/", "/plotsynopsis"),
      Entry("get_title", "_images", "/title/", "/images"),
      Entry("get_title", "_videos", "/title/", "/videos"),
      Entry("get_title", "_user_reviews", "/title/", "/userreviews"),
      Entry("get_title", "_metacritic_reviews", "/title/", "/metacritic"),
      Entry("get_title", "_companies", "/title/", "/companies"),
      Entry("get_title", "_technical", "/title/", "/technical"),
      Entry("get_title", "_trivia", "/title/", "/trivia"),
      Entry("get_title", "_goofs", "/title/", "/goofs"),
      Entry("get_title", "_soundtracks", "/title/", "/soundtracks"),
      Entry("get_title", "_news", "/title/", "/news"),
      Entry("get_title", "_plot_taglines", "/title/", "/taglines") }

EndpointNames == { e.name : e \in ENDPOINTS }
EndpointOf(name) == CHOOSE e \in ENDPOINTS : e.name = name
\* Variant: the identifier is put under /title/ whatever the template
Format_UnderTitle(e, imdb_id) == Path("/title/", imdb_id, e.post)

\* uri.format(imdb_id=imdb_id)
Format(e, imdb_id) == Path(e.pre, imdb_id, e.post)

\* Variant: every get_ operation of the table is taken for a title operation
StartsWithGetTitle_Get(name) == name[1] \in {"get_title", "get_name", "get_name_"}

\* name.startswith('get_title')
StartsWithGetTitle(name) == name[1] = "get_title"

\* Methods defined on the class; attribute lookup finds them without
\* reaching __getattr__
GET_TITLE == <<"get_title", "">>
GET_TITLE_EPISODES == <<"get_title", "_episodes">>
TITLE_EXISTS == <<"title_exi", "sts">>
IS_REDIRECTION_TITLE == <<"is_redire", "ction_title">>
GET_POPULAR_TITLES == <<"get_popul", "ar_titles">>
GET_POPULAR_SHOWS == <<"get_popul", "ar_shows">>
GET_POPULAR_MOVIES == <<"get_popul", "ar_movies">>
ChartNames == {GET_POPULAR_TITLES, GET_POPULAR_SHOWS, GET_POPULAR_MOVIES}
SEARCH_FOR_NAME == <<"search_fo", "r_name">>
SEARCH_FOR_TITLE == <<"search_fo", "r_title">>
SearchNames == {SEARCH_FOR_NAME, SEARCH_FOR_TITLE}
GET_TITLE_EPISODES_DETAILED == <<"get_title", "_episodes_detailed">>
GET_TITLE_TOP_CREW == <<"get_title", "_top_crew">>
\* the methods that call _get on a template of the service
RenderNames == {GET_TITLE_EPISODES_DETAILED, GET_TITLE_TOP_CREW}
MethodNames ==
    {GET_TITLE, GET_TITLE_EPISODES, TITLE_EXISTS, IS_REDIRECTION_TITLE}
        \cup ChartNames \cup SearchNames \cup RenderNames

(***************************************************************************)
(* Decoding                                                                *)
(***************************************************************************)
\* json.loads(text): the value, or ValueError (JSONDecodeError)
JsonLoads(b) ==
    IF b.call = <<>> /\ b.inner = "json"
    THEN Return(b.value)
    ELSE Raise("JSONDecodeError", "")

\* _parse_dirty_json(data, query=None): re.match of imdb\$.+\((.+)\) from the
\* start of the text; .groups() of None raises AttributeError; the group is
\* handed to json.loads
ParseDirtyJsonNoQuery(b) ==
    IF b.head = "imdb$" /\ b.call # <<>> /\ b.inner # ""
    THEN IF b.inner = "json" THEN Return(b.value)
                             ELSE Raise("JSONDecodeError", "")
    ELSE Raise("AttributeError", "'NoneType' object has no attribute 'groups'")

\* The query handed to _get: the characters of quote(item), or none
Query(chars) == [t |-> "str", chars |-> chars]
NoQuery == [t |-> "NoneType", chars |-> <<>>]

\* query_match: one element for each character of unquote(query), the
\* character itself when alphanumeric and the class [c] otherwise, with the
\* class of the space replaced by .+
Literal(c) == [any |-> FALSE, c |-> c]
AnyRun == [any |-> TRUE, c |-> ""]
QueryMatch(query) ==
    LET u == unquote(query.chars)
    IN  [i \in 1..Len(u) |-> IF u[i] = " " THEN AnyRun ELSE Literal(u[i])]

\* re.IGNORECASE on one literal character
SameIgnoringCase(a, b) == Lower(a) = Lower(b)

\* Variant: the call name is compared with the query character for character
MatchesCall_CaseSensitive(pat, chars) ==
    /\ Len(pat) = Len(chars)
    /\ \A i \in 1..Len(pat) : ~pat[i].any /\ pat[i].c = chars[i]

\* the call name is matched by the whole of query_match (the pattern goes on
\* with the opening parenthesis, which no call name contains)
RECURSIVE MatchesCall(_, _)
MatchesCall(pat, chars) ==
    IF pat = <<>> THEN chars = <<>>
    ELSE IF Head(pat).any
         THEN \E k \in 1..Len(chars) :
                    MatchesCall(Tail(pat), SubSeq(chars, k + 1, Len(chars)))
         ELSE /\ chars # <<>>
              /\ SameIgnoringCase(Head(pat).c, Head(chars))
              /\ MatchesCall(Tail(pat), Tail(chars))

\* _parse_dirty_json(data, query) with a query: re.match of
\* imdb\$<query_match>\((.+)\), case-insensitively
ParseDirtyJsonQuery(b, query) ==
    IF b.head = "imdb$" /\ MatchesCall(QueryMatch(query), b.call) /\ b.inner # ""
    THEN IF b.inner = "json" THEN Return(b.value)
                             ELSE Raise("JSONDecodeError", "")
    ELSE Raise("AttributeError", "'NoneType' object has no attribute 'groups'")

\* _parse_dirty_json(data, query=None)
_parse_dirty_json(b, query) ==
    IF query = NoQuery THEN ParseDirtyJsonNoQuery(b)
                       ELSE ParseDirtyJsonQuery(b, query)

\* Variant: the decoded mapping is returned whatever its error field
GetDecoded_KeepError(b, query) ==
    LET strict == JsonLoads(b)
        d == IF strict.kind = "raise" /\ IsValueError(strict.exc)
             THEN _parse_dirty_json(b, query) ELSE strict
    IN  IF d.kind = "raise" THEN d
        ELSE IF d.value.t # "dict"
             THEN Raise("AttributeError", "object has no attribute 'get'")
        ELSE Return(d.value)

\* _get after the body was read: strict parse, dirty parse on ValueError,
\* then resp_dict.get('error')
GetDecoded(b, query) ==
    LET strict == JsonLoads(b)
        d == IF strict.kind = "raise" /\ IsValueError(strict.exc)
             THEN _parse_dirty_json(b, query) ELSE strict
    IN  IF d.kind = "raise" THEN d
        ELSE IF d.value.t # "dict"
             THEN Raise("AttributeError", "object has no attribute 'get'")
        ELSE IF Truthy(DictGet(d.value, "error")) THEN Return(PyNone)
        ELSE Return(d.value)

\* Variant: 404 is not told apart from the other statuses
GetStatusError_No404(status, path) ==
    [Raise("ImdbAPIError", "{r.status} {r.text}")
        EXCEPT !.status = status, !.text = TextOfBoundMethod]

\* _get on a status other than 200
GetStatusError(status, path) ==
    IF status = 404
    THEN [Raise("LookupError", "Resource {path} not found") EXCEPT !.path = path]
    ELSE [Raise("ImdbAPIError", "{r.status} {r.text}")
            EXCEPT !.status = status, !.text = TextOfBoundMethod]

\* _get_resource given the outcome of _get: data['resource']
GetResource(got) ==
    IF got.kind = "raise" THEN got
    ELSE LET e == SubscriptError(got.value, "resource")
         IN  IF e # "" THEN Raise(e, "resource")
             ELSE Return(Item(got.value, "resource"))

\* get_title given the outcome of _get_resource
GetTitleFinish(res, excl) ==
    IF res.kind = "raise"
    THEN IF IsLookupError(res.exc) THEN TitleNotFound ELSE res
    ELSE IF excl = PyBool(TRUE)
         THEN LET e1 == SubscriptError(res.value, "base")
              IN  IF e1 # "" THEN Raise(e1, "base")
                  ELSE LET base == Item(res.value, "base")
                           e2 == SubscriptError(base, "titleType")
                       IN  IF e2 # "" THEN Raise(e2, "titleType")
                           ELSE IF Item(base, "titleType") = PyStr("tvEpisode")
                           THEN Raise("LookupError",
                                      "Title not found. Title was an episode")
                           ELSE res
         ELSE res

\* One record of the result list under result_mapping, a sequence of
\* <<output name, service key>>: {name: res.get(key, None) ...}
MapRecord(res, result_mapping) ==
    PyDict([i \in 1..Len(result_mapping) |->
                <<result_mapping[i][1], DictGet(res, result_mapping[i][2])>>])

\* Variant: the result list is read with results['d']
SearchFor_RequireD(got, result_mapping) ==
    IF got.kind = "raise" THEN got
    ELSE IF got.value.t # "dict"
         THEN Raise("AttributeError", "object has no attribute 'get'")
    ELSE IF ~HasKey(got.value, "d") THEN Raise("KeyError", "d")
    ELSE LET d == Item(got.value, "d")
         IN  IF d.t # "list" THEN Raise("TypeError", "object is not iterable")
             ELSE IF \E i \in 1..Len(d.a) : d.a[i].t # "dict"
                  THEN Raise("AttributeError", "object has no attribute 'get'")
             ELSE Return(PyList([i \in 1..Len(d.a) |->
                                    MapRecord(d.a[i], result_mapping)]))

\* _search_for given the outcome of _get: results.get('d', []) and the
\* comprehension over it
SearchFor(got, result_mapping) ==
    IF got.kind = "raise" THEN got
    ELSE IF got.value.t # "dict"
         THEN Raise("AttributeError", "object has no attribute 'get'")
    ELSE LET d == IF HasKey(got.value, "d") THEN Item(got.value, "d")
                                            ELSE PyList(<<>>)
         IN  IF d.t # "list" THEN Raise("TypeError", "object is not iterable")
             ELSE IF \E i \in 1..Len(d.a) : d.a[i].t # "dict"
                  THEN Raise("AttributeError", "object has no attribute 'get'")
             ELSE Return(PyList([i \in 1..Len(d.a) |->
                                    MapRecord(d.a[i], result_mapping)]))

NameMapping == << <<"name", "l">>, <<"imdb_id", "id">> >>
TitleMapping ==
    << <<"title", "l">>, <<"year", "y">>, <<"imdb_id", "id">>, <<"type", "q">> >>

\* Variant: the person filter matches the identifier in either case
StartsWithNm_AnyCase(v) ==
    /\ "chars" \in DOMAIN v
    /\ Len(v.chars) >= 2
    /\ Lower(v.chars[1]) = "n"
    /\ Lower(v.chars[2]) = "m"

\* str.startswith('nm') of a str value
StartsWithNm(v) ==
    /\ "chars" \in DOMAIN v
    /\ Len(v.chars) >= 2
    /\ v.chars[1] = "n"
    /\ v.chars[2] = "m"

\* [res for res in ... if res['imdb_id'].startswith('nm')]
RECURSIVE KeepPersons(_)
KeepPersons(a) ==
    IF a = <<>> THEN <<>>
    ELSE IF StartsWithNm(Item(Head(a), "imdb_id"))
         THEN <<Head(a)>> \o KeepPersons(Tail(a))
         ELSE KeepPersons(Tail(a))

\* search_for_name given the outcome of _search_for:
\* res['imdb_id'].startswith('nm') for each record
SearchForNameFinish(found) ==
    IF found.kind = "raise" THEN found
    ELSE IF \E i \in 1..Len(found.value.a) :
                Item(found.value.a[i], "imdb_id").t # "str"
         THEN Raise("AttributeError", "object has no attribute 'startswith'")
    ELSE Return(PyList(KeepPersons(found.value.a)))

\* title_exists given the status of the HEAD response; raise_for_status
\* raises for a status of 400 and above and returns otherwise, and the
\* method then ends without a return statement
TitleExistsResult(status) ==
    IF status = 200 THEN Return(PyBool(TRUE))
    ELSE IF status = 404 THEN Return(PyBool(FALSE))
    ELSE IF status = 301 THEN Return(PyBool(FALSE))
    ELSE IF status >= 400
         THEN [Raise("ClientResponseError", "") EXCEPT !.status = status]
         ELSE Return(PyNone)

\* Variant: the redirection status is taken to be 302
IsRedirectionResult_Found(status) == status = 302

\* is_redirection_title given the status of the HEAD response
IsRedirectionResult(status) == status = 301

(***************************************************************************)
(* Inputs                                                                  *)
(***************************************************************************)
TT0111161 == IdStr(<<"t", "t", "0", "1", "1", "1", "1", "6", "1">>)
NM0000032 == IdStr(<<"n", "m", "0", "0", "0", "0", "0", "3", "2">>)

Identifiers ==
    { TT0111161, NM0000032,
      IdStr(<<"T", "T", "0", "1", "1", "1", "1", "6", "1", "x">>),
      IdStr(<<"U+212A", "t", "1", "2", "3", "4", "5", "6", "7">>),
      IdStr(<<"x">>),
      IdStr(<<"t", "t", "1", "2", "3", "4", "5", "6">>),
      IdNone, IdInt }

\* values given as exclude_episodes to the constructor
ExcludeValues == {PyBool(FALSE), PyBool(TRUE), PyInt(1), PyNone}

\* values given as locale to the constructor
LocaleArgs == {PyNone, PyStr(""), PyStr("fr_FR")}

\* search texts
Queries ==
    { IdStr(<<"A", "b", " ", "c">>),
      IdStr(<<" ", "x", "!">>),
      IdStr(<<"a", ":", " ", "b">>),
      IdStr(<<"U+00C9", "1">>),
      IdStr(<<"!", "!">>),
      IdStr(<<"_">>),
      IdStr(<<>>) }

HeadStatuses == {200, 204, 301, 302, 404, 500}
GetStatuses == {200, 404, 500, 503}

Outline == PyDict(<< <<"outline", PyStr("x")>> >>)
TitleOfType(ty) ==
    PyDict(<< <<"base", PyDict(<< <<"titleType", PyStr(ty)>> >>)>> >>)

Bodies ==
    { Body("", <<>>, "json", PyDict(<< <<"resource", Outline>> >>)),
      Body("", <<>>, "json", PyDict(<< <<"resource", TitleOfType("tvEpisode")>> >>)),
      Body("", <<>>, "json", PyDict(<< <<"resource", TitleOfType("movie")>> >>)),
      Body("", <<>>, "json", PyDict(<< <<"resource", PyStr("x")>> >>)),
      Body("", <<>>, "json", PyDict(<< <<"error", PyStr("not found")>> >>)),
      Body("", <<>>, "json", PyDict(<< <<"error", PyStr("not found")>>,
                                     <<"resource", Outline>> >>)),
      Body("", <<>>, "json", PyDict(<< <<"error", PyStr("")>>,
                                     <<"resource", Outline>> >>)),
      Body("", <<>>, "json", PyDict(<< <<"d", PyList(<<>>)>> >>)),
      Body("", <<>>, "json", PyDict(<<>>)),
      Body("", <<>>, "json", PyList(<<>>)),
      Body("imdb$", <<"f", "o", "o">>, "json", PyDict(<< <<"resource", Outline>> >>)),
      Body("imdb$", <<"f", "o", "o">>, "invalid", PyNone),
      Body("", <<>>, "invalid", PyNone) }

Chars(id) == PyChars(id.chars)
Person(name, id) == PyDict(<< <<"l", PyStr(name)>>, <<"id", Chars(id)>> >>)
Title(name, year, id, q) ==
    PyDict(<< <<"l", PyStr(name)>>, <<"y", year>>, <<"id", Chars(id)>>,
              <<"q", PyStr(q)>> >>)
Webber == Person("Andrew Lloyd Webber", NM0000032)
Shawshank == Title("The Shawshank Redemption", PyInt(1994), TT0111161, "feature")
Undated ==
    PyDict(<< <<"l", PyStr("Untitled")>>, <<"id", Chars(TT0111161)>>,
              <<"q", PyStr("video")>> >>)
Upper == Person("NM", IdStr(<<"N", "M", "0", "0", "0", "0", "0", "3", "2">>))
Nameless == PyDict(<< <<"l", PyStr("x")>> >>)
Results(a) == PyDict(<< <<"d", PyList(a)>> >>)

SearchBodies ==
    { Body("", <<>>, "json", Results(<<Shawshank, Webber, Undated, Webber>>)),
      Body("", <<>>, "json", Results(<<Upper, Shawshank>>)),
      Body("", <<>>, "json", Results(<<Webber, Nameless>>)),
      Body("", <<>>, "json", Results(<<>>)),
      Body("", <<>>, "json", PyDict(<< <<"v", PyInt(1)>> >>)),
      Body("", <<>>, "json", PyDict(<< <<"error", PyStr("not found")>> >>)),
      Body("", <<>>, "json", PyDict(<< <<"error", PyStr("not found")>>,
                                     <<"d", PyList(<<Webber>>)>> >>)),
      Body("", <<>>, "json", PyDict(<< <<"error", PyStr("")>>,
                                     <<"d", PyList(<<Webber>>)>> >>)),
      Body("imdb$", <<"a", "b", "_", "c">>, "json", Results(<<Webber, Shawshank>>)),
      Body("imdb$", <<"A", "_", "B">>, "json", Results(<<Undated>>)),
      Body("imdb$", <<"x">>, "invalid", PyNone),
      Body("imdb$", <<"f", "o", "o">>, "json", Results(<<Webber>>)),
      Body("", <<>>, "invalid", PyNone) }

(***************************************************************************)
(* Coroutines.  pc is the await a coroutine is suspended at: "head" the    *)
(* HEAD request, "auth" get_auth_headers, "get" the GET request, "text"    *)
(* r.text().  events lists what the transport and the auth provider saw.   *)
(***************************************************************************)
NoName == <<"", "">>
IdleTask ==
    [op |-> NoName, imdb_id |-> NoId, pc |-> "idle", events |-> <<>>,
     out |-> Pending, head |-> 0, get |-> 0, body |-> NoBody, path |-> NoPath,
     item |-> NoId, query |-> NoQuery, requests |-> <<>>, season |-> 0,
     responses |-> <<>>]

Finish(tk, out) == [tk EXCEPT !.pc = "done", !.out = out]

\* async with session.get(...) / session.head(...) as response: the
\* response is acquired when the block is entered
Acquire(tk, method) ==
    [tk EXCEPT !.responses = Append(@, [of |-> method, released |-> FALSE])]

\* Variant: the response is not released when its block is left
Release_Never(tk) == tk

\* the block is left, by its end, a return or an exception: the response is
\* released
Release(tk) ==
    [tk EXCEPT !.responses =
        [i \in DOMAIN @ |-> [@[i] EXCEPT !.released = TRUE]]]

\* Request headers: the Accept-Language value ("" when the header is not
\* sent) and the path the authorization headers were computed for
Headers(lang, signed) == [accept_language |-> lang, signed_path |-> signed]
NoHeaders == Headers("", NoPath)
\* {'Accept-Language': self.locale}
LocaleHeaders(loc) == Headers(loc, NoPath)
\* what get_auth_headers(path) returns
AuthHeaders(path) == [signed_path |-> path]
\* headers.update(auth)
UpdateHeaders(h, auth) == [h EXCEPT !.signed_path = auth.signed_path]

Request(method, path, headers) ==
    [method |-> method, path |-> path, headers |-> headers]

\* session.head(page_url) is entered, page_url alone being passed
StartHead(tk) ==
    [tk EXCEPT !.pc = "head", !.events = Append(@, "HEAD"),
               !.requests = Append(@, Request("HEAD",
                                Path("/title/", tk.imdb_id, "/"), NoHeaders))]

\* _get up to its first await: the path is derived and get_auth_headers(path)
\* is awaited
StartGet(tk, path) ==
    [tk EXCEPT !.pc = "auth", !.path = path, !.events = Append(@, "AUTH")]

\* is_redirection_title up to its await (also reached through
\* _redirection_title_check)
EnterIsRedirectionTitle(tk) ==
    IF validate_imdb_id(tk.imdb_id) THEN StartHead(tk)
                                    ELSE Finish(tk, InvalidImdbId)

\* Variant: _fetch leaves validation to the redirection check
FetchValidateAndGet_NoValidate(tk) ==
    StartGet(tk, Format(EndpointOf(tk.op), tk.imdb_id))

\* _fetch after the redirection check: validate, then _get_resource
FetchValidateAndGet(tk) ==
    IF validate_imdb_id(tk.imdb_id)
    THEN StartGet(tk, Format(EndpointOf(tk.op), tk.imdb_id))
    ELSE Finish(tk, InvalidImdbId)

\* _fetch(name, uri, imdb_id) up to its first await
EnterFetch(tk) ==
    IF StartsWithGetTitle(tk.op) THEN EnterIsRedirectionTitle(tk)
                                 ELSE FetchValidateAndGet(tk)

\* get_title up to its first await
EnterGetTitle(tk) ==
    IF validate_imdb_id(tk.imdb_id) THEN EnterIsRedirectionTitle(tk)
                                    ELSE Finish(tk, InvalidImdbId)

\* Variant: the configuration is tested with "is True", as get_title does
EnterGetTitleEpisodes_IsTrue(tk, excl) ==
    IF ~validate_imdb_id(tk.imdb_id) THEN Finish(tk, InvalidImdbId)
    ELSE IF excl = PyBool(TRUE)
         THEN Finish(tk, Raise("ValueError",
                               "exclude_episodes is current set to true"))
         ELSE StartGet(tk, Path("/title/", tk.imdb_id, "/episodes"))

\* get_title_episodes up to its first await
EnterGetTitleEpisodes(tk, excl) ==
    IF ~validate_imdb_id(tk.imdb_id) THEN Finish(tk, InvalidImdbId)
    ELSE IF Truthy(excl)
         THEN Finish(tk, Raise("ValueError",
                               "exclude_episodes is current set to true"))
         ELSE StartGet(tk, Path("/title/", tk.imdb_id, "/episodes"))

\* title_exists up to its await
EnterTitleExists(tk) ==
    IF validate_imdb_id(tk.imdb_id) THEN StartHead(tk)
                                    ELSE Finish(tk, InvalidImdbId)

\* get_popular_titles / get_popular_shows / get_popular_movies
ChartPath(name) ==
    IF name = GET_POPULAR_TITLES THEN Path("/chart/titlemeter", NoId, "")
    ELSE IF name = GET_POPULAR_SHOWS THEN Path("/chart/tvmeter", NoId, "")
    ELSE Path("/chart/moviemeter", NoId, "")

\* the path of <SEARCH_BASE_URI>/suggests/<c>/<query>.json
SearchPath(c, q) == Path("/suggests/", IdStr(<<c, "/">> \o q), ".json")

\* Variant: the bucket is the first character of the query as typed
EnterSearchFor_FirstChar(tk) ==
    LET item == NormalizeItem(tk.item.chars)
        q == quote(item)
    IN  IF _query_first_alpha_num(item) = ""
        THEN Finish(tk, Raise("ValueError",
                "invalid query, does not contain any alphanumeric characters"))
        ELSE StartGet([tk EXCEPT !.query = Query(q)], SearchPath(item[1], q))

\* _search_for up to its await
EnterSearchFor(tk) ==
    LET item == NormalizeItem(tk.item.chars)
        q == quote(item)
        c == _query_first_alpha_num(item)
    IN  IF c = ""
        THEN Finish(tk, Raise("ValueError",
                "invalid query, does not contain any alphanumeric characters"))
        ELSE StartGet([tk EXCEPT !.query = Query(q)], SearchPath(c, q))

\* super().__getattr__(name): no class above Imdb resolves the name and the
\* lookup fails with AttributeError
SuperGetattr(name) ==
    Raise("AttributeError", "object has no attribute '__getattr__'")

\* Variant: a name outside the table is fetched under a path built from it
Getattr_AnyName(tk) ==
    IF tk.op \in EndpointNames THEN EnterFetch(tk)
    ELSE StartGet(tk, Path("/title/", tk.imdb_id, "/unknown"))

\* __getattr__(name) and the call of what it returns
Getattr(tk) ==
    IF tk.op \in EndpointNames THEN EnterFetch(tk)
    ELSE Finish(tk, SuperGetattr(tk.op))

\* path + '?' + urlencode(params): params is the sequence of <<key, value>>
ParamPath(pre, params) ==
    [pre |-> pre, id |-> NoId, post |-> "", params |-> params]

DefaultLimit == 500    \* limit=500
DefaultOffset == 0     \* offset=0

\* get_title_episodes_detailed(imdb_id, season) up to its await, limit,
\* region and offset left at their defaults
EnterGetTitleEpisodesDetailed(tk) ==
    IF ~validate_imdb_id(tk.imdb_id) THEN Finish(tk, InvalidImdbId)
    ELSE IF tk.season < 1
         THEN Finish(tk, Raise("ValueError", "season must be greater than zero"))
    ELSE StartGet(tk,
            ParamPath("/template/imdb-ios-writable/tv-episodes-v2.jstl/render",
                      << <<"end", PyInt(DefaultLimit)>>,
                         <<"start", PyInt(DefaultOffset)>>,
                         <<"season", PyInt(tk.season - 1)>>,
                         <<"tconst", tk.imdb_id>> >>))

\* get_title_top_crew up to its await
EnterGetTitleTopCrew(tk) ==
    IF ~validate_imdb_id(tk.imdb_id) THEN Finish(tk, InvalidImdbId)
    ELSE StartGet(tk,
            ParamPath("/template/imdb-android-writable/7.3.top-crew.jstl/render",
                      << <<"tconst", tk.imdb_id>> >>))

\* Attribute lookup: a method of the class, else __getattr__ and ENDPOINTS
Enter(tk, excl) ==
    IF tk.op = GET_TITLE THEN EnterGetTitle(tk)
    ELSE IF tk.op = GET_TITLE_EPISODES THEN EnterGetTitleEpisodes(tk, excl)
    ELSE IF tk.op = TITLE_EXISTS THEN EnterTitleExists(tk)
    ELSE IF tk.op = IS_REDIRECTION_TITLE THEN EnterIsRedirectionTitle(tk)
    ELSE IF tk.op \in ChartNames THEN StartGet(tk, ChartPath(tk.op))
    ELSE IF tk.op \in SearchNames THEN EnterSearchFor(tk)
    ELSE IF tk.op = GET_TITLE_EPISODES_DETAILED
         THEN EnterGetTitleEpisodesDetailed(tk)
    ELSE IF tk.op = GET_TITLE_TOP_CREW THEN EnterGetTitleTopCrew(tk)
    ELSE Getattr(tk)

\* Variant: a HEAD answered 500 and above is sent again, once
AfterHead_Retry(tk0, status) ==
    LET tk == Release(Acquire([tk0 EXCEPT !.head = status,
                                          !.events = Append(@, "HEAD_DONE")],
                              "HEAD"))
    IN  IF status >= 500 /\ Len(tk0.requests) < 2 THEN StartHead(tk)
        ELSE IF tk.op = TITLE_EXISTS THEN Finish(tk, TitleExistsResult(status))
        ELSE IF tk.op = IS_REDIRECTION_TITLE
             THEN Finish(tk, Return(PyBool(IsRedirectionResult(status))))
        ELSE IF IsRedirectionResult(status)
             THEN Finish(tk, TitleNotFoundRedirection(tk.imdb_id))
        ELSE IF tk.op = GET_TITLE
             THEN StartGet(tk, Path("/title/", tk.imdb_id, "/auxiliary"))
        ELSE FetchValidateAndGet(tk)

\* The HEAD response arrived: the rest of is_redirection_title and of
\* _redirection_title_check, or of title_exists, up to the next await
AfterHead(tk0, status) ==
    LET tk == Release(Acquire([tk0 EXCEPT !.head = status,
                                          !.events = Append(@, "HEAD_DONE")],
                              "HEAD"))
    IN  IF tk.op = TITLE_EXISTS THEN Finish(tk, TitleExistsResult(status))
        ELSE IF tk.op = IS_REDIRECTION_TITLE
             THEN Finish(tk, Return(PyBool(IsRedirectionResult(status))))
        ELSE IF IsRedirectionResult(status)
             THEN Finish(tk, TitleNotFoundRedirection(tk.imdb_id))
        ELSE IF tk.op = GET_TITLE
             THEN StartGet(tk, Path("/title/", tk.imdb_id, "/auxiliary"))
        ELSE FetchValidateAndGet(tk)

\* What the caller of _get does with its outcome
AfterGet(tk, got, excl) ==
    IF tk.op = GET_TITLE THEN GetTitleFinish(GetResource(got), excl)
    ELSE IF tk.op = SEARCH_FOR_NAME
         THEN SearchForNameFinish(SearchFor(got, NameMapping))
    ELSE IF tk.op = SEARCH_FOR_TITLE THEN SearchFor(got, TitleMapping)
    ELSE IF tk.op \in RenderNames THEN got
    ELSE GetResource(got)

\* Variant: the request goes out with the locale header alone
SendGet_Unsigned(tk, loc) ==
    [tk EXCEPT !.pc = "get", !.events = @ \o <<"AUTH_DONE", "GET">>,
               !.requests = Append(@, Request("GET", tk.path,
                                              LocaleHeaders(loc)))]

\* _get once get_auth_headers(path) has returned: the headers are merged
\* and session.get is entered
SendGet(tk, loc) ==
    [tk EXCEPT !.pc = "get", !.events = @ \o <<"AUTH_DONE", "GET">>,
               !.requests = Append(@, Request("GET", tk.path,
                    UpdateHeaders(LocaleHeaders(loc), AuthHeaders(tk.path))))]

(***************************************************************************)
(* Actions                                                                 *)
(***************************************************************************)
NoProbe == [imdb_id |-> NoId, res |-> ""]

\* self.locale = locale or 'en_US'
LocaleOf(arg) == IF Truthy(arg) THEN arg.s ELSE "en_US"
\* self.session = session or aiohttp.ClientSession()
NewSession(supplied) ==
    [supplied |-> supplied, created |-> ~supplied, is_none |-> FALSE,
     entered |-> 0, exited |-> 0, close_calls |-> 0]

Init ==
    /\ exclude_episodes \in ExcludeValues
    /\ locale \in { LocaleOf(arg) : arg \in LocaleArgs }
    /\ session = NewSession(FALSE)
    /\ task = [t \in Tasks |-> IdleTask]
    /\ probe = NoProbe

\* A caller starts an operation; it runs up to its first await.  arg is the
\* identifier, or the text of a search
Call(t, name, arg) ==
    /\ task[t].pc = "idle"
    /\ task' = [task EXCEPT
                  ![t] = Enter([IdleTask EXCEPT
                                  !.op = name,
                                  !.imdb_id = IF name \in SearchNames
                                              THEN NoId ELSE arg,
                                  !.item = IF name \in SearchNames
                                           THEN arg ELSE NoId],
                               exclude_episodes)]
    /\ UNCHANGED <<exclude_episodes, locale, session, probe>>

\* A caller starts get_title_episodes_detailed(imdb_id, season)
CallEpisodesDetailed(t, imdb_id, season) ==
    /\ task[t].pc = "idle"
    /\ task' = [task EXCEPT
                  ![t] = Enter([IdleTask EXCEPT
                                  !.op = GET_TITLE_EPISODES_DETAILED,
                                  !.imdb_id = imdb_id,
                                  !.season = season],
                               exclude_episodes)]
    /\ UNCHANGED <<exclude_episodes, locale, session, probe>>

\* The transport answers the HEAD request
HeadRespond(t, status) ==
    /\ task[t].pc = "head"
    /\ task' = [task EXCEPT ![t] = AfterHead(task[t], status)]
    /\ UNCHANGED <<exclude_episodes, locale, session, probe>>

\* get_auth_headers returns: the GET request is sent
AuthRespond(t) ==
    /\ task[t].pc = "auth"
    /\ task' = [task EXCEPT ![t] = SendGet(task[t], locale)]
    /\ UNCHANGED <<exclude_episodes, locale, session, probe>>

\* get_auth_headers raises: the error passes through _get
AuthFail(t) ==
    /\ task[t].pc = "auth"
    /\ task' = [task EXCEPT
                  ![t] = Finish([task[t] EXCEPT
                                    !.events = Append(@, "AUTH_FAILED")],
                                AfterGet(task[t], Raise("AuthError", ""),
                                         exclude_episodes))]
    /\ UNCHANGED <<exclude_episodes, locale, session, probe>>

\* The transport answers the GET request: the status is classified
GetRespond(t, status, body) ==
    /\ task[t].pc = "get"
    /\ LET tk == Acquire([task[t] EXCEPT !.get = status, !.body = body,
                                         !.events = Append(@, "GET_DONE")],
                         "GET")
       IN  task' = [task EXCEPT ![t] =
                IF status = 200
                THEN [tk EXCEPT !.pc = "text"]
                ELSE Finish(Release(tk),
                            AfterGet(tk, GetStatusError(status, tk.path),
                                     exclude_episodes))]
    /\ UNCHANGED <<exclude_episodes, locale, session, probe>>

\* Variant: the text that is decoded is the one last read on the client,
\* whichever operation read it
TextRespond_Shared(t) ==
    /\ task[t].pc = "text"
    /\ LET others == { u \in DOMAIN task : u # t /\ task[u].body # NoBody }
           read == IF others = {} THEN task[t].body
                   ELSE task[CHOOSE u \in others : TRUE].body
       IN  task' = [task EXCEPT
                  ![t] = Finish(Release([task[t] EXCEPT
                                    !.events = Append(@, "TEXT_DONE")]),
                                AfterGet(task[t], GetDecoded(read, task[t].query),
                                         exclude_episodes))]
    /\ UNCHANGED <<exclude_episodes, locale, session, probe>>

\* r.text() returns the body: it is decoded and handed up to the caller
TextRespond(t) ==
    /\ task[t].pc = "text"
    /\ task' = [task EXCEPT
                  ![t] = Finish(Release([task[t] EXCEPT
                                    !.events = Append(@, "TEXT_DONE")]),
                                AfterGet(task[t], GetDecoded(task[t].body, task[t].query),
                                         exclude_episodes))]
    /\ UNCHANGED <<exclude_episodes, locale, session, probe>>

\* The event loop cancels the operation at the await it is suspended at:
\* CancelledError is raised there and passes through every enclosing block
Cancel(t) ==
    /\ task[t].pc \in {"head", "auth", "get", "text"}
    /\ task' = [task EXCEPT
                  ![t] = Finish(IF task[t].pc = "text" THEN Release(task[t])
                                                      ELSE task[t],
                                Raise("CancelledError", ""))]
    /\ UNCHANGED <<exclude_episodes, locale, session, probe>>

\* The caller takes the outcome and is free to call again
Complete(t) ==
    /\ task[t].pc = "done"
    /\ task' = [task EXCEPT ![t] = IdleTask]
    /\ UNCHANGED <<exclude_episodes, locale, session, probe>>

\* __aenter__
AEnter ==
    /\ session.entered < MaxContexts
    /\ session' = [session EXCEPT !.entered = @ + 1]
    /\ UNCHANGED <<exclude_episodes, locale, task, probe>>

\* __aexit__: the session is closed when it is not None
AExit ==
    /\ session.exited < session.entered
    /\ session' = [session EXCEPT
                      !.exited = @ + 1,
                      !.close_calls = IF session.is_none THEN @ ELSE @ + 1]
    /\ UNCHANGED <<exclude_episodes, locale, task, probe>>

OperationNames == MethodNames \cup EndpointNames
\* names that are neither methods of the class nor keys of ENDPOINTS
UnknownNames ==
    { <<"get_title", "_budget">>, <<"get_name_", "awards">>,
      <<"get_perso", "n">> }
\* the seasons asked of get_title_episodes_detailed
Seasons == {0, 1, 2}

\* the arguments tried with an operation
ArgsOf(name) ==
    IF name \in ChartNames THEN {NoId}
    ELSE IF name \in UnknownNames THEN {TT0111161, NoId}
    ELSE IF name \in SearchNames THEN Queries
    ELSE Identifiers
\* the bodies the transport answers an operation with
BodiesOf(name) == IF name \in SearchNames THEN SearchBodies ELSE Bodies

Next ==
    \E t \in Tasks :
        \/ \E name \in (OperationNames \cup UnknownNames)
                            \ {GET_TITLE_EPISODES_DETAILED} :
            \E arg \in ArgsOf(name) : Call(t, name, arg)
        \/ \E imdb_id \in Identifiers : \E season \in Seasons :
                CallEpisodesDetailed(t, imdb_id, season)
        \/ \E status \in HeadStatuses : HeadRespond(t, status)
        \/ AuthRespond(t)
        \/ AuthFail(t)
        \/ \E status \in GetStatuses : \E body \in BodiesOf(task[t].op) :
                GetRespond(t, status, body)
        \/ TextRespond(t)
        \/ Complete(t)

Spec == Init /\ [][Next]_vars

(***************************************************************************)
(* The client used as an async context manager, any number of times up to  *)
(* MaxContexts, around a few operations                                    *)
(***************************************************************************)
InitSession ==
    /\ exclude_episodes = PyBool(FALSE)
    /\ locale = "en_US"
    /\ session \in { NewSession(supplied) : supplied \in BOOLEAN }
    /\ task = [t \in Tasks |-> IdleTask]
    /\ probe = NoProbe

NextSession ==
    \/ AEnter
    \/ AExit
    \/ \E t \in Tasks :
        \/ \E name \in {GET_TITLE, TITLE_EXISTS, GET_POPULAR_TITLES} :
                Call(t, name, IF name \in ChartNames THEN NoId ELSE TT0111161)
        \/ \E status \in {200, 301} : HeadRespond(t, status)
        \/ AuthRespond(t)
        \/ AuthFail(t)
        \/ \E status \in {200, 404} :
                GetRespond(t, status,
                    Body("", <<>>, "json", PyDict(<< <<"resource", Outline>> >>)))
        \/ TextRespond(t)
        \/ Complete(t)

SpecSession == InitSession /\ [][NextSession]_vars

(***************************************************************************)
(* Direct calls of validate_imdb_id on a family of inputs                  *)
(***************************************************************************)
PrefixChars == {"t", "M", "U+212A", "U+00E9", "1", "_"}
TrailChars == {"x", "1"}

SeqsUpTo(S, n) == UNION { [1..k -> S] : k \in 0..n }

DigitRuns ==
    { <<"0", "1", "1", "1", "1", "6", "1">>,
      <<"0", "1", "1", "1", "1", "6">>,
      <<"0", "1", "1", "x", "1", "6", "1">>,
      <<"0", "1", "1", "1", "1", "6", "U+0661">>,
      <<>> }

ProbeInputs ==
    {IdNone, IdInt, IdBytes} \cup
    { IdStr(p \o d \o s) : p \in SeqsUpTo(PrefixChars, PrefixLetters),
                           d \in DigitRuns,
                           s \in SeqsUpTo(TrailChars, MaxTrailing) }

InitValidate ==
    /\ exclude_episodes = PyBool(FALSE)
    /\ locale = "en_US"
    /\ session = NewSession(FALSE)
    /\ task = [t \in Tasks |-> IdleTask]
    /\ \E i \in ProbeInputs : probe = [imdb_id |-> i, res |-> ""]

\* Imdb.validate_imdb_id(imdb_id) is called
Validate ==
    /\ probe.res = ""
    /\ probe' = [probe EXCEPT !.res = IF validate_imdb_id(probe.imdb_id)
                                      THEN "returned" ELSE "ValueError"]
    /\ UNCHANGED <<exclude_episodes, locale, session, task>>

NextValidate == Validate

SpecValidate == InitValidate /\ [][NextValidate]_vars

(***************************************************************************)
(* Decoding of response texts.  A text is the sequence of its characters;  *)
(* "imdb$", a number, a keyword and a string without parentheses are one   *)
(* element each, "\n" is the line feed.                                    *)
(***************************************************************************)
RECURSIVE Dumps(_)
RECURSIVE DumpsItems(_)
RECURSIVE DumpsPairs(_)
\* the JSON text of a value, as the service writes it on one line
Dumps(v) ==
    CASE v.t = "NoneType" -> <<"null">>
      [] v.t = "bool" -> <<IF v.b THEN "true" ELSE "false">>
      [] v.t = "int" -> <<ToString(v.n)>>
      [] v.t = "str" -> IF "s" \in DOMAIN v THEN <<"'", v.s, "'">>
                        ELSE <<"'">> \o v.chars \o <<"'">>
      [] v.t = "list" -> <<"[">> \o DumpsItems(v.a) \o <<"]">>
      [] v.t = "dict" -> <<"{">> \o DumpsPairs(v.kv) \o <<"}">>
DumpsItems(a) ==
    IF a = <<>> THEN <<>>
    ELSE Dumps(Head(a)) \o (IF Len(a) > 1 THEN <<",">> ELSE <<>>)
            \o DumpsItems(Tail(a))
DumpsPairs(kv) ==
    IF kv = <<>> THEN <<>>
    ELSE <<"'", Head(kv)[1], "'", ":">> \o Dumps(Head(kv)[2])
            \o (IF Len(kv) > 1 THEN <<",">> ELSE <<>>) \o DumpsPairs(Tail(kv))

\* the same text written over several lines: a line feed after every comma
\* and inside the outer brackets
Indent(text) ==
    LET RECURSIVE Feed(_)
        Feed(s) == IF s = <<>> THEN <<>>
                   ELSE IF Head(s) = "," THEN <<",", "\n">> \o Feed(Tail(s))
                   ELSE <<Head(s)>> \o Feed(Tail(s))
    IN  <<Head(text), "\n">> \o Feed(SubSeq(text, 2, Len(text) - 1))
            \o <<"\n", text[Len(text)]>>

Mapping(kv) == PyDict(kv)
\* mappings the service answers with
Payloads ==
    { Mapping(<< <<"resource", Mapping(<< <<"a", PyInt(1)>> >>)>> >>),
      Mapping(<< <<"resource", Outline>> >>),
      Mapping(<< <<"d", PyList(<< Mapping(<< <<"l",
            PyChars(<<"L", "e", "o", "n", " ", "(", "P", "r", "o", ")">>)>> >>) >>)>> >>),
      Mapping(<< <<"a", PyChars(<<"x", ")", "y">>)>>, <<"b", PyInt(2)>> >>),
      Mapping(<<>>) }

\* json.loads(text): whitespace between the elements is skipped; the text
\* of a value yields that value and any other text raises JSONDecodeError
LoadsText(text) ==
    LET bare == SelectSeq(text, LAMBDA c : c # "\n")
    IN  IF \E v \in Payloads : Dumps(v) = bare
        THEN Return(CHOOSE v \in Payloads : Dumps(v) = bare)
        ELSE Raise("JSONDecodeError", "")

\* . of a pattern: any character but the line feed
NoLineFeed(text, a, b) == \A n \in a..b : text[n] # "\n"

\* \((.+)\) from position i of the text: an opening parenthesis at i, a
\* closing one at j, one character or more between them
ClosesAfter(text, i, j) ==
    /\ j \in (i + 2)..Len(text)
    /\ text[i] = "("
    /\ text[j] = ")"
    /\ NoLineFeed(text, i + 1, j - 1)
\* the group of the match whose parenthesis is at i: (.+) is greedy and
\* runs to the last closing parenthesis it can reach
GroupFrom(text, i) ==
    LET j == CHOOSE j \in 1..Len(text) :
                /\ ClosesAfter(text, i, j)
                /\ \A k \in (j + 1)..Len(text) : ~ClosesAfter(text, i, k)
    IN  SubSeq(text, i + 1, j - 1)

\* re.match(r'imdb\$.+\({1}(.+)\){1}', data): .+ is greedy, the match
\* takes the last opening parenthesis that lets the rest match
OpensNoQuery(text, i) ==
    /\ i >= 3
    /\ text[1] = "imdb$"
    /\ NoLineFeed(text, 2, i - 1)
    /\ \E j \in 1..Len(text) : ClosesAfter(text, i, j)
\* Variant: the call name ends at the first opening parenthesis
MatchNoQuery_First(text) ==
    IF \E i \in 1..Len(text) : OpensNoQuery(text, i)
    THEN Return(PyChars(GroupFrom(text,
            CHOOSE i \in 1..Len(text) :
                /\ OpensNoQuery(text, i)
                /\ \A k \in 1..(i - 1) : ~OpensNoQuery(text, k))))
    ELSE Raise("AttributeError", "'NoneType' object has no attribute 'groups'")

MatchNoQuery(text) ==
    IF \E i \in 1..Len(text) : OpensNoQuery(text, i)
    THEN Return(PyChars(GroupFrom(text,
            CHOOSE i \in 1..Len(text) :
                /\ OpensNoQuery(text, i)
                /\ \A k \in (i + 1)..Len(text) : ~OpensNoQuery(text, k))))
    ELSE Raise("AttributeError", "'NoneType' object has no attribute 'groups'")

\* re.match(r'imdb\${query_match}\((.+)\)', data, re.IGNORECASE)
OpensQuery(text, query, i) ==
    /\ i >= 2
    /\ text[1] = "imdb$"
    /\ MatchesCall(QueryMatch(query), SubSeq(text, 2, i - 1))
    /\ NoLineFeed(text, 2, i - 1)
    /\ \E j \in 1..Len(text) : ClosesAfter(text, i, j)
MatchQuery(text, query) ==
    IF \E i \in 1..Len(text) : OpensQuery(text, query, i)
    THEN Return(PyChars(GroupFrom(text,
            CHOOSE i \in 1..Len(text) :
                /\ OpensQuery(text, query, i)
                /\ \A k \in (i + 1)..Len(text) : ~OpensQuery(text, query, k))))
    ELSE Raise("AttributeError", "'NoneType' object has no attribute 'groups'")

\* _parse_dirty_json(data, query) on a text
ParseDirtyText(text, query) ==
    LET m == IF query = NoQuery THEN MatchNoQuery(text)
                                ELSE MatchQuery(text, query)
    IN  IF m.kind = "raise" THEN m ELSE LoadsText(m.value.chars)

\* _get from resp_data on: strict parse, the dirty parse on ValueError; by
\* is the parse that gave the outcome
DecodeText(text, query) ==
    LET strict == LoadsText(text)
    IN  IF strict.kind = "return" THEN [by |-> "strict", out |-> strict]
        ELSE [by |-> "dirty", out |-> ParseDirtyText(text, query)]

\* the texts of a payload: the document itself or a call around it, on one
\* line or several
CallNames == { <<"f", "o", "o">>, <<"A", "b", "_", "c">>, <<"x">> }
Clean(p) == Dumps(p)
Dirty(name, p) == <<"imdb$">> \o name \o <<"(">> \o Dumps(p) \o <<")">>
DirtyLines(name, p) == <<"imdb$">> \o name \o <<"(">> \o Indent(Dumps(p)) \o <<")">>
QueryHints ==
    {NoQuery} \cup { Query(quote(n)) : n \in CallNames }
              \cup { Query(<<"a", "b", "_", "c">>) }

DecodeInputs ==
    { [form |-> "clean", name |-> <<>>, payload |-> p, data |-> Clean(p),
       query |-> q] : p \in Payloads, q \in QueryHints }
    \cup { [form |-> "dirty", name |-> n, payload |-> p, data |-> Dirty(n, p),
            query |-> q] : n \in CallNames, p \in Payloads, q \in QueryHints }
    \cup { [form |-> "lines", name |-> n, payload |-> p,
            data |-> DirtyLines(n, p), query |-> q] :
                n \in CallNames, p \in Payloads \ {Mapping(<<>>)}, q \in QueryHints }

InitDecode ==
    /\ exclude_episodes = PyBool(FALSE)
    /\ locale = "en_US"
    /\ session = NewSession(FALSE)
    /\ task = [t \in Tasks |-> IdleTask]
    /\ \E i \in DecodeInputs : probe = [input |-> i, by |-> "", out |-> Pending]

\* the decoding steps of _get run on the text of a 200 response
Decode ==
    /\ "input" \in DOMAIN probe
    /\ probe.out = Pending
    /\ LET r == DecodeText(probe.input.data, probe.input.query)
       IN  probe' = [probe EXCEPT !.by = r.by, !.out = r.out]
    /\ UNCHANGED <<exclude_episodes, locale, session, task>>

NextDecode == Decode

SpecDecode == InitDecode /\ [][NextDecode]_vars

(***************************************************************************)
(* Several operations awaited at once on one client (asyncio.gather): the  *)
(* event loop resumes any coroutine whose awaited answer has arrived       *)
(***************************************************************************)
ConcurrentTasks == 1..MaxConcurrent
ConcurrentNames ==
    {GET_TITLE, GET_TITLE_EPISODES, <<"get_name", "">>, SEARCH_FOR_TITLE}
ConcurrentBodies ==
    { Body("", <<>>, "json", PyDict(<< <<"resource", TitleOfType("movie")>> >>)),
      Body("", <<>>, "json", PyDict(<< <<"resource", TitleOfType("tvEpisode")>> >>)),
      Body("", <<>>, "json", Results(<<Shawshank>>)) }

InitConcurrent ==
    /\ exclude_episodes \in ExcludeValues
    /\ locale = "en_US"
    /\ session = NewSession(FALSE)
    /\ task = [t \in ConcurrentTasks |-> IdleTask]
    /\ probe = NoProbe

NextConcurrent ==
    \E t \in ConcurrentTasks :
        \/ \E name \in ConcurrentNames :
                Call(t, name, IF name \in SearchNames
                              THEN IdStr(<<"A", "b", " ", "c">>) ELSE TT0111161)
        \/ \E status \in {200, 301} : HeadRespond(t, status)
        \/ AuthRespond(t)
        \/ AuthFail(t)
        \/ \E status \in {200, 404} : \E body \in ConcurrentBodies :
                GetRespond(t, status, body)
        \/ TextRespond(t)
        \/ Complete(t)

SpecConcurrent == InitConcurrent /\ [][NextConcurrent]_vars

(***************************************************************************)
(* Operations that the event loop may cancel while they are in flight      *)
(***************************************************************************)
CancelNames ==
    {GET_TITLE, TITLE_EXISTS, <<"get_title", "_plot">>, <<"get_name", "">>,
     SEARCH_FOR_NAME, GET_TITLE_TOP_CREW}

InitCancel ==
    /\ exclude_episodes \in {PyBool(FALSE), PyBool(TRUE)}
    /\ locale = "en_US"
    /\ session = NewSession(FALSE)
    /\ task = [t \in Tasks |-> IdleTask]
    /\ probe = NoProbe

NextCancel ==
    \E t \in Tasks :
        \/ \E name \in CancelNames :
                Call(t, name, IF name \in SearchNames
                              THEN IdStr(<<"A", "b", " ", "c">>) ELSE TT0111161)
        \/ \E status \in HeadStatuses : HeadRespond(t, status)
        \/ AuthRespond(t)
        \/ AuthFail(t)
        \/ \E status \in GetStatuses : \E body \in BodiesOf(task[t].op) :
                GetRespond(t, status, body)
        \/ TextRespond(t)
        \/ Cancel(t)
        \/ Complete(t)

SpecCancel == InitCancel /\ [][NextCancel]_vars

(***************************************************************************)
(* Properties                                                              *)
(***************************************************************************)
\* every y in ev has an x before it
PrecededBy(ev, x, y) ==
    \A j \in 1..Len(ev) : ev[j] = y => \E i \in 1..(j - 1) : ev[i] = x
\* no x in ev comes after a y
NeverAfter(ev, x, y) ==
    \A i, j \in 1..Len(ev) : (ev[i] = y /\ ev[j] = x) => j < i
Occurs(ev, x) == \E i \in 1..Len(ev) : ev[i] = x

\* get_title and every get_title_<aspect>, hand-written or dispatched
TitleScoped(name) ==
    \/ name \in {GET_TITLE, GET_TITLE_EPISODES}
    \/ name \in EndpointNames /\ EndpointOf(name).pre = "/title/"
\* the title operations that call _redirection_title_check
ChecksRedirection(name) ==
    \/ name = GET_TITLE
    \/ name \in EndpointNames /\ StartsWithGetTitle(name)

\* C1: in every title-scoped operation (get_title, every get_title_<aspect>,
\* get_title_episodes) a data GET is issued only after the HEAD redirection
\* check of the same operation has completed, and the check is never issued
\* after the data GET.
C1_CheckBeforeEveryTitleGet ==
    \A t \in Tasks :
        TitleScoped(task[t].op) =>
            /\ PrecededBy(task[t].events, "HEAD_DONE", "GET")
            /\ NeverAfter(task[t].events, "HEAD", "GET")

\* C2: when the HEAD redirection check of a title-scoped operation returns
\* 301 the operation fails with LookupError whose message names the
\* identifier as a redirection id, and neither the auth-header computation
\* nor the data GET is issued.
C2_RedirectionShortCircuits ==
    \A t \in Tasks :
        (ChecksRedirection(task[t].op) /\ task[t].head = 301) =>
            /\ task[t].pc = "done"
            /\ task[t].out.kind = "raise"
            /\ IsLookupError(task[t].out.exc)
            /\ task[t].out.msg =
                   "Title not found. {imdb_id} is a redirection imdb id"
            /\ task[t].out.id = task[t].imdb_id
            /\ ~Occurs(task[t].events, "AUTH")
            /\ ~Occurs(task[t].events, "GET")

C2_Witness ==
    \E t \in Tasks :
        /\ task[t].op = <<"get_title", "_credits">>
        /\ task[t].head = 301
        /\ task[t].pc = "done"

\* C3: every public operation that takes an identifier, called with an
\* identifier that fails validation, raises ValueError('invalid imdb id')
\* and issues no HEAD, no auth-header computation and no GET.
C3_InvalidIdentifierNoCalls ==
    \A t \in Tasks :
        (/\ task[t].pc # "idle"
         /\ task[t].op \in OperationNames \ (ChartNames \cup SearchNames)
         /\ ~validate_imdb_id(task[t].imdb_id)) =>
            /\ task[t].pc = "done"
            /\ task[t].out = InvalidImdbId
            /\ task[t].events = <<>>

C3_Witness ==
    \E t \in Tasks :
        /\ task[t].op = <<"get_name_", "filmography">>
        /\ task[t].imdb_id = IdStr(<<"x">>)
        /\ task[t].pc = "done"
        /\ task[t].out.exc = "ValueError"

\* a string that begins with two ASCII letters followed by seven digits
TwoAsciiLettersSevenDigits(imdb_id) ==
    /\ imdb_id.t = "str"
    /\ Len(imdb_id.chars) >= 9
    /\ \A i \in 1..2 : imdb_id.chars[i] \in AsciiLetter
    /\ \A i \in 3..9 : imdb_id.chars[i] \in AsciiDigit

\* C4: validate_imdb_id returns for every string that begins with two ASCII
\* letters followed by seven digits (whatever follows them) and raises
\* ValueError for every other string, for numbers and for None.
C4_ValidateIffAsciiPattern ==
    probe.res # "" =>
        (probe.res = "returned" <=> TwoAsciiLettersSevenDigits(probe.imdb_id))

\* the mapping _get decoded from a 200 response, when there is one
DecodedOf(b) ==
    LET strict == JsonLoads(b)
    IN  IF strict.kind = "return" THEN strict ELSE ParseDirtyJsonNoQuery(b)
UsesGetResource(name) ==
    name \notin {TITLE_EXISTS, IS_REDIRECTION_TITLE} \cup SearchNames
                    \cup RenderNames

\* C5: for every resource-returning operation, a 200 response whose decoded
\* payload has a truthy error field or lacks a resource key ends in
\* LookupError, never in a result.
C5_AbsentResourceIsNotFound ==
    \A t \in Tasks :
        (/\ task[t].pc = "done"
         /\ UsesGetResource(task[t].op)
         /\ Occurs(task[t].events, "TEXT_DONE")
         /\ DecodedOf(task[t].body).kind = "return"
         /\ DecodedOf(task[t].body).value.t = "dict"
         /\ \/ Truthy(DictGet(DecodedOf(task[t].body).value, "error"))
            \/ ~HasKey(DecodedOf(task[t].body).value, "resource")) =>
            /\ task[t].out.kind = "raise"
            /\ IsLookupError(task[t].out.exc)

\* C6: _get sends a 200 response on to decoding, fails on 404 with
\* LookupError naming the request path, and fails on every other status with
\* ImdbAPIError carrying the status code and the response body; a response
\* other than 200 is never decoded.  (Observed through the operations that
\* hand the error of _get to the caller unchanged.)
C6_StatusClassification ==
    \A t \in Tasks :
        (task[t].get # 0 /\ task[t].op # GET_TITLE) =>
            IF task[t].get = 200
            THEN task[t].pc = "text" \/ Occurs(task[t].events, "TEXT_DONE")
            ELSE /\ task[t].pc = "done"
                 /\ ~Occurs(task[t].events, "TEXT_DONE")
                 /\ task[t].out.kind = "raise"
                 /\ IF task[t].get = 404
                    THEN /\ task[t].out.exc = "LookupError"
                         /\ task[t].out.path = task[t].path
                    ELSE /\ task[t].out.exc = "ImdbAPIError"
                         /\ task[t].out.status = task[t].get
                         /\ task[t].out.text = TextOfBody(task[t].body)

\* an error that reports an unexpected status of the service
IsUpstreamError(exc) == exc \in {"ImdbAPIError", "ClientResponseError"}

\* C7: in the title redirection check a HEAD status other than 200, 404 and
\* 301 surfaces as an upstream error and the operation issues no data GET.
C7_OtherHeadStatusIsUpstreamError ==
    \A t \in Tasks :
        (/\ ChecksRedirection(task[t].op)
         /\ task[t].head \notin {0, 200, 404, 301}) =>
            /\ task[t].pc = "done"
            /\ task[t].out.kind = "raise"
            /\ IsUpstreamError(task[t].out.exc)
            /\ ~Occurs(task[t].events, "GET")

\* C8: title_exists on a valid identifier issues one HEAD request and
\* returns True for 200, False for 404 and 301, and fails with an upstream
\* error for every other status; it returns nothing but True or False.
C8_TitleExistsOutcomes ==
    \A t \in Tasks :
        (task[t].op = TITLE_EXISTS /\ task[t].pc = "done"
            /\ validate_imdb_id(task[t].imdb_id)) =>
            /\ task[t].events = <<"HEAD", "HEAD_DONE">>
            /\ task[t].head = 200 => task[t].out = Return(PyBool(TRUE))
            /\ task[t].head \in {404, 301} => task[t].out = Return(PyBool(FALSE))
            /\ task[t].head \notin {200, 404, 301} =>
                    /\ task[t].out.kind = "raise"
                    /\ IsUpstreamError(task[t].out.exc)
            /\ task[t].out.kind = "return" => task[t].out.value.t = "bool"

\* C9: when the HEAD redirection check returns 200 or 404 the operation goes
\* on to the data GET (the auth headers are computed and, unless that
\* fails, the GET is sent), and a GET answered 404 ends the operation with
\* LookupError, for get_title and for every title aspect.
C9_NotRedirectedThenGet404IsNotFound ==
    \A t \in Tasks :
        (ChecksRedirection(task[t].op) /\ task[t].head \in {200, 404}) =>
            /\ \/ task[t].pc = "auth"
               \/ Occurs(task[t].events, "AUTH_FAILED")
               \/ Occurs(task[t].events, "GET")
            /\ task[t].get = 404 =>
                    /\ task[t].pc = "done"
                    /\ task[t].out.kind = "raise"
                    /\ IsLookupError(task[t].out.exc)

C9_Witness ==
    \E t \in Tasks :
        /\ task[t].op = GET_TITLE
        /\ task[t].head = 200
        /\ task[t].get = 404
        /\ task[t].pc = "done"
        /\ task[t].out = TitleNotFound

\* C10: get_title_episodes on a client configured to exclude episodes fails
\* with ValueError, for every identifier, without a HEAD, an auth-header
\* computation or a GET; for a valid identifier the error is the
\* configuration error.
C10_EpisodesExcludedFailsFast ==
    \A t \in Tasks :
        (/\ task[t].op = GET_TITLE_EPISODES
         /\ task[t].pc # "idle"
         /\ Truthy(exclude_episodes)) =>
            /\ task[t].pc = "done"
            /\ task[t].out.kind = "raise"
            /\ task[t].out.exc = "ValueError"
            /\ task[t].events = <<>>
            /\ validate_imdb_id(task[t].imdb_id) =>
                    task[t].out.msg = "exclude_episodes is current set to true"

C10_Witness ==
    \E t \in Tasks :
        /\ task[t].op = GET_TITLE_EPISODES
        /\ task[t].imdb_id = TT0111161
        /\ exclude_episodes = PyInt(1)
        /\ task[t].pc = "done"
        /\ task[t].out.msg = "exclude_episodes is current set to true"

Count(ev, x) == Cardinality({ i \in 1..Len(ev) : ev[i] = x })
CountMethod(reqs, m) == Cardinality({ i \in 1..Len(reqs) : reqs[i].method = m })

\* the resource's type marks it as an episode
IsEpisode(r) ==
    /\ r.t = "dict"
    /\ HasKey(r, "base")
    /\ Item(r, "base").t = "dict"
    /\ HasKey(Item(r, "base"), "titleType")
    /\ Item(Item(r, "base"), "titleType") = PyStr("tvEpisode")

\* the auxiliary resource of a 200 response, when the fetch yields one
FetchedResource(b) == GetResource(GetDecoded(b, NoQuery))

\* C11: get_title, once the redirection check has passed and the auxiliary
\* resource has been fetched, fails with LookupError ('Title was an episode')
\* when the client excludes episodes and the resource's titleType is
\* tvEpisode, and returns the fetched resource unchanged in every other case.
C11_EpisodePolicy ==
    \A t \in Tasks :
        (/\ task[t].op = GET_TITLE
         /\ task[t].pc = "done"
         /\ Occurs(task[t].events, "TEXT_DONE")
         /\ FetchedResource(task[t].body).kind = "return") =>
            IF /\ exclude_episodes = PyBool(TRUE)
               /\ IsEpisode(FetchedResource(task[t].body).value)
            THEN task[t].out =
                    Raise("LookupError", "Title not found. Title was an episode")
            ELSE task[t].out = Return(FetchedResource(task[t].body).value)

\* C12: the session is created by the constructor when none is supplied, and
\* over any sequence of operations, entries and exits of the context its
\* close is invoked exactly once: never twice, and once as soon as the
\* context has been left.
C12_ClosedExactlyOnce ==
    /\ ~session.supplied => session.created
    /\ session.close_calls <= 1
    /\ session.exited >= 1 => session.close_calls = 1

\* C13: whatever the transport answers, an operation issues at most one data
\* GET and at most one HEAD.
C13_SingleAttempt ==
    \A t \in Tasks :
        /\ Count(task[t].events, "GET") <= 1
        /\ Count(task[t].events, "HEAD") <= 1
        /\ CountMethod(task[t].requests, "GET") <= 1
        /\ CountMethod(task[t].requests, "HEAD") <= 1

C13_Witness ==
    \E t \in Tasks :
        /\ task[t].op = GET_TITLE
        /\ task[t].head = 500
        /\ task[t].get = 503
        /\ task[t].pc = "done"
        /\ Count(task[t].events, "GET") = 1
        /\ Count(task[t].events, "HEAD") = 1

PersonNames ==
    { <<"get_name", "">>, <<"get_name_", "filmography">>,
      <<"get_name_", "images">>, <<"get_name_", "videos">> }

IsPrefix(a, b) == Len(a) <= Len(b) /\ SubSeq(b, 1, Len(a)) = a

\* C14: the person operations and the chart operations never issue a HEAD
\* redirection check: each issues the auth-header computation and one GET.
C14_NoCheckForPersonsAndCharts ==
    \A t \in Tasks :
        task[t].op \in PersonNames \cup ChartNames =>
            /\ ~Occurs(task[t].events, "HEAD")
            /\ CountMethod(task[t].requests, "HEAD") = 0
            /\ CountMethod(task[t].requests, "GET") <= 1
            /\ \/ IsPrefix(task[t].events,
                    <<"AUTH", "AUTH_DONE", "GET", "GET_DONE", "TEXT_DONE">>)
               \/ task[t].events = <<"AUTH", "AUTH_FAILED">>

C14_Witness ==
    \E t \in Tasks :
        /\ task[t].op = <<"get_name_", "filmography">>
        /\ task[t].pc = "done"
        /\ task[t].get = 200
        /\ task[t].out.kind = "return"

\* C15: every request sent to the service, the data GETs and the HEADs of
\* title_exists and of the redirection check alike, carries an
\* Accept-Language header equal to the configured locale.
C15_LocaleOnEveryRequest ==
    \A t \in Tasks :
        \A i \in 1..Len(task[t].requests) :
            task[t].requests[i].headers.accept_language = locale

\* C16: every data GET follows, within its operation, a completed
\* auth-header computation for the path of that request and carries those
\* headers merged with the locale header; when the computation fails no GET
\* is issued.
C16_AuthBeforeGet ==
    \A t \in Tasks :
        /\ PrecededBy(task[t].events, "AUTH_DONE", "GET")
        /\ PrecededBy(task[t].events, "AUTH", "AUTH_DONE")
        /\ Occurs(task[t].events, "AUTH_FAILED") =>
                /\ ~Occurs(task[t].events, "GET")
                /\ CountMethod(task[t].requests, "GET") = 0
        /\ \A i \in 1..Len(task[t].requests) :
                task[t].requests[i].method = "GET" =>
                    /\ Occurs(task[t].events, "AUTH_DONE")
                    /\ task[t].requests[i].path = task[t].path
                    /\ task[t].requests[i].headers =
                            Headers(locale, task[t].requests[i].path)

C16_Witness ==
    \E t \in Tasks :
        /\ task[t].op = SEARCH_FOR_TITLE
        /\ locale = "fr_FR"
        /\ task[t].pc = "get"
        /\ CountMethod(task[t].requests, "GET") = 1

\* the result list of a 200 response of a search, when it is one
ResultSetOf(tk) == GetDecoded(tk.body, tk.query)
HasResultSet(tk) ==
    /\ tk.pc = "done"
    /\ Occurs(tk.events, "TEXT_DONE")
    /\ ResultSetOf(tk).kind = "return"
    /\ ResultSetOf(tk).value.t = "dict"
    /\ HasKey(ResultSetOf(tk).value, "d")
    /\ Item(ResultSetOf(tk).value, "d").t = "list"
Records(tk) == Item(ResultSetOf(tk).value, "d").a

IsPersonRecord(r) ==
    /\ HasKey(r, "id")
    /\ "chars" \in DOMAIN Item(r, "id")
    /\ SubSeq(Item(r, "id").chars, 1, 2) = <<"n", "m">>
PersonOf(r) ==
    PyDict(<< <<"name", DictGet(r, "l")>>, <<"imdb_id", DictGet(r, "id")>> >>)
RECURSIVE PersonsOf(_)
PersonsOf(a) ==
    IF a = <<>> THEN <<>>
    ELSE IF IsPersonRecord(Head(a)) THEN <<PersonOf(Head(a))>> \o PersonsOf(Tail(a))
    ELSE PersonsOf(Tail(a))

\* C17: search_for_name returns, for any result set of the service, exactly
\* the records whose identifier starts with 'nm', in the service's order,
\* each as {name: l, imdb_id: id}; every other record is dropped.
C17_NameSearchKeepsPersons ==
    \A t \in Tasks :
        (task[t].op = SEARCH_FOR_NAME /\ HasResultSet(task[t])) =>
            task[t].out = Return(PyList(PersonsOf(Records(task[t]))))

\* C18: search_for_title passes every record of the result set through, in
\* order, renamed to title, year, imdb_id and type; year is a str whenever
\* the record has a year and None when it has none, never a number.
C18_TitleSearchPassesThrough ==
    \A t \in Tasks :
        (task[t].op = SEARCH_FOR_TITLE /\ HasResultSet(task[t])) =>
            /\ task[t].out.kind = "return"
            /\ task[t].out.value.t = "list"
            /\ Len(task[t].out.value.a) = Len(Records(task[t]))
            /\ \A i \in 1..Len(Records(task[t])) :
                LET r == Records(task[t])[i]
                    o == task[t].out.value.a[i]
                IN  /\ o.t = "dict"
                    /\ [k \in 1..Len(o.kv) |-> o.kv[k][1]] =
                            <<"title", "year", "imdb_id", "type">>
                    /\ Item(o, "title") = DictGet(r, "l")
                    /\ Item(o, "imdb_id") = DictGet(r, "id")
                    /\ Item(o, "type") = DictGet(r, "q")
                    /\ IF HasKey(r, "y") THEN Item(o, "year").t = "str"
                                         ELSE Item(o, "year") = PyNone

\* the first alphanumeric character of a text
FirstAlnum(chars) ==
    chars[CHOOSE i \in 1..Len(chars) :
            IsAlnum(chars[i]) /\ \A j \in 1..(i - 1) : ~IsAlnum(chars[j])]
HasAlnum(chars) == \E i \in 1..Len(chars) : IsAlnum(chars[i])

\* C19: a search whose text has no alphanumeric character fails with
\* ValueError without any request; otherwise its single GET goes to
\* /suggests/<c>/<encoded-query>.json, c the first alphanumeric character of
\* the normalized text, lower-cased.
C19_SearchBucket ==
    \A t \in Tasks :
        (task[t].op \in SearchNames /\ task[t].pc # "idle") =>
            IF ~HasAlnum(task[t].item.chars)
            THEN /\ task[t].pc = "done"
                 /\ task[t].out.kind = "raise"
                 /\ task[t].out.exc = "ValueError"
                 /\ task[t].events = <<>>
                 /\ task[t].requests = <<>>
            ELSE LET n == NormalizeItem(task[t].item.chars)
                     url == SearchPath(Lower(FirstAlnum(n)), quote(n))
                 IN  /\ task[t].path = url
                     /\ CountMethod(task[t].requests, "HEAD") = 0
                     /\ CountMethod(task[t].requests, "GET") <= 1
                     /\ \A i \in 1..Len(task[t].requests) :
                            task[t].requests[i].path = url

C19_Witness ==
    \E t \in Tasks :
        /\ task[t].op = SEARCH_FOR_NAME
        /\ task[t].item = IdStr(<<"A", "b", " ", "c">>)
        /\ task[t].pc = "get"
        /\ task[t].path =
                SearchPath("a", <<"A", "b", "_", "c">>)

\* the dirty-JSON path was taken and failed
DirtyFailed(b, query) ==
    /\ JsonLoads(b).kind = "raise"
    /\ _parse_dirty_json(b, query).kind = "raise"

\* C20: a decoding failure of the dirty-JSON path, be it no match of the
\* call pattern or an argument that is not JSON, is reported as one error
\* kind that the caller can tell from ValueError (invalid identifier or
\* query), LookupError (not found) and ImdbAPIError, without a second
\* request.
C20_MalformedIsOneKind ==
    \A t \in Tasks :
        (/\ task[t].pc = "done"
         /\ Occurs(task[t].events, "TEXT_DONE")
         /\ DirtyFailed(task[t].body, task[t].query)) =>
            /\ task[t].out.kind = "raise"
            /\ ~IsValueError(task[t].out.exc)
            /\ ~IsLookupError(task[t].out.exc)
            /\ task[t].out.exc # "ImdbAPIError"
            /\ Count(task[t].events, "GET") = 1
            /\ \A b \in Bodies \cup SearchBodies :
                    DirtyFailed(b, task[t].query) =>
                        _parse_dirty_json(b, task[t].query).exc = task[t].out.exc

\* the call name of the text is the query, as the suggests service echoes it
EchoesQuery(i) == i.query # NoQuery /\ unquote(i.query.chars) = i.name

\* C21: for every mapping P, decoding the clean text of P, decoding
\* imdb$name(P) without a query and decoding it with a query that the call
\* name echoes all yield P; the strict parse comes first and the dirty parse
\* is taken only when the strict parse fails.
C21_CleanAndDirtyAgree ==
    probe.out # Pending =>
        /\ probe.by = "strict" <=> LoadsText(probe.input.data).kind = "return"
        /\ probe.input.form = "clean" => probe.out = Return(probe.input.payload)
        /\ (probe.input.form # "clean" /\ probe.input.query = NoQuery) =>
                probe.out = Return(probe.input.payload)
        /\ (probe.input.form # "clean" /\ EchoesQuery(probe.input)) =>
                probe.out = Return(probe.input.payload)

\* the mapping a 200 response decodes to, when it decodes to one
MappingOf(tk) ==
    LET strict == JsonLoads(tk.body)
    IN  IF strict.kind = "return" THEN strict
        ELSE _parse_dirty_json(tk.body, tk.query)
DecodesToMapping(tk) ==
    /\ tk.pc = "done"
    /\ Occurs(tk.events, "TEXT_DONE")
    /\ MappingOf(tk).kind = "return"
    /\ MappingOf(tk).value.t = "dict"

\* the whole result of a search on a mapping, when its records allow one
WholeResult(tk) ==
    LET d == IF HasKey(MappingOf(tk).value, "d")
             THEN Item(MappingOf(tk).value, "d").a ELSE <<>>
    IN  IF tk.op = SEARCH_FOR_NAME THEN PyList(PersonsOf(d))
        ELSE PyList([i \in 1..Len(d) |->
                PyDict(<< <<"title", DictGet(d[i], "l")>>,
                          <<"year", DictGet(d[i], "y")>>,
                          <<"imdb_id", DictGet(d[i], "id")>>,
                          <<"type", DictGet(d[i], "q")>> >>)])

IsResourceBody(b) ==
    /\ b.head = ""
    /\ b.call = <<>>
    /\ b.inner = "json"
    /\ b.value.t = "dict"
    /\ Len(b.value.kv) = 1
    /\ b.value.kv[1][1] = "resource"

\* C25: for every operation of the endpoint table and every valid
\* identifier, when the HEAD check (if there is one) returns 200 and the GET
\* returns 200 with a clean body {"resource": R}, the GET went to the
\* operation's template with the identifier in it and the operation returns
\* exactly R.
C25_EndToEnd ==
    \A t \in Tasks :
        (/\ task[t].op \in EndpointNames
         /\ task[t].pc = "done"
         /\ validate_imdb_id(task[t].imdb_id)
         /\ task[t].head \in {0, 200}
         /\ task[t].get = 200
         /\ IsResourceBody(task[t].body)) =>
            LET e == CHOOSE x \in ENDPOINTS : x.name = task[t].op
                gets == { i \in 1..Len(task[t].requests) :
                            task[t].requests[i].method = "GET" }
            IN  /\ Cardinality(gets) = 1
                /\ \A i \in gets :
                        task[t].requests[i].path =
                            [pre |-> e.pre, id |-> task[t].imdb_id, post |-> e.post]
                /\ task[t].out = Return(task[t].body.value.kv[1][2])

C25_Witness ==
    \E t \in Tasks :
        /\ task[t].op = <<"get_title", "_plot">>
        /\ task[t].imdb_id = TT0111161
        /\ task[t].pc = "done"
        /\ task[t].head = 200
        /\ task[t].get = 200
        /\ task[t].requests[2].path = Path("/title/", TT0111161, "/plot")
        /\ task[t].out = Return(Outline)

\* the steps an operation may have taken, in their order
StepOrders ==
    { <<"HEAD", "HEAD_DONE", "AUTH", "AUTH_DONE", "GET", "GET_DONE", "TEXT_DONE">>,
      <<"HEAD", "HEAD_DONE", "AUTH", "AUTH_FAILED">>,
      <<"AUTH", "AUTH_DONE", "GET", "GET_DONE", "TEXT_DONE">>,
      <<"AUTH", "AUTH_FAILED">> }

\* the operation of tk awaited on its own on a client with the same
\* configuration, the transport and the auth provider answering it as they
\* answered tk
Alone(tk, excl, loc) ==
    LET s0 == Enter([IdleTask EXCEPT !.op = tk.op, !.imdb_id = tk.imdb_id,
                                     !.item = tk.item, !.season = tk.season],
                    excl)
        s1 == IF s0.pc = "head" THEN AfterHead(s0, tk.head) ELSE s0
        s2 == IF s1.pc # "auth" THEN s1
              ELSE IF Occurs(tk.events, "AUTH_FAILED")
                   THEN Finish([s1 EXCEPT !.events = Append(@, "AUTH_FAILED")],
                               AfterGet(s1, Raise("AuthError", ""), excl))
              ELSE SendGet(s1, loc)
        s3 == IF s2.pc # "get" THEN s2
              ELSE LET r == Acquire([s2 EXCEPT !.get = tk.get, !.body = tk.body,
                                               !.events = Append(@, "GET_DONE")],
                                    "GET")
                   IN  IF tk.get = 200 THEN [r EXCEPT !.pc = "text"]
                       ELSE Finish(Release(r),
                                   AfterGet(r, GetStatusError(tk.get, r.path),
                                            excl))
    IN  IF s3.pc # "text" THEN s3
        ELSE Finish(Release([s3 EXCEPT !.events = Append(@, "TEXT_DONE")]),
                    AfterGet(s3, GetDecoded(s3.body, s3.query), excl))

\* C26: with several operations awaited at once on one client, under every
\* interleaving each operation takes its own steps in the order redirection
\* check, auth headers, GET, decoding, each step after the one before it
\* has finished, and ends exactly as it would alone with the same answers
\* to its own requests.
C26_OperationsAreIndependent ==
    \A t \in DOMAIN task :
        /\ \E o \in StepOrders : IsPrefix(task[t].events, o)
        /\ task[t].pc = "done" =>
                task[t] = Alone(task[t], exclude_episodes, locale)

C26_Witness ==
    \E t, u \in DOMAIN task :
        /\ t # u
        /\ task[t].op = GET_TITLE
        /\ task[t].pc = "done"
        /\ task[t].out = Return(TitleOfType("movie"))
        /\ task[u].op = SEARCH_FOR_TITLE
        /\ task[u].pc = "text"
        /\ task[u].body = Body("", <<>>, "json", Results(<<Shawshank>>))

Unreleased(tk) == { i \in 1..Len(tk.responses) : ~tk.responses[i].released }

\* C27: every response acquired by a GET or HEAD request is released before
\* its operation ends, on every way out: a return, a classified error, a
\* decoding failure and the cancellation of the call at any await; a
\* response is held only while its own block runs.
C27_ResponsesReleased ==
    \A t \in Tasks :
        /\ task[t].pc = "done" => Unreleased(task[t]) = {}
        /\ task[t].pc # "text" => Unreleased(task[t]) = {}
        /\ Cardinality(Unreleased(task[t])) <= 1
        /\ Len(task[t].responses) =
                Count(task[t].events, "HEAD_DONE") + Count(task[t].events, "GET_DONE")

C27_Witness ==
    \E t \in Tasks :
        /\ task[t].op = GET_TITLE
        /\ task[t].pc = "done"
        /\ task[t].out.exc = "CancelledError"
        /\ task[t].get = 200
        /\ ~Occurs(task[t].events, "TEXT_DONE")
        /\ task[t].responses = << [of |-> "HEAD", released |-> TRUE],
                                  [of |-> "GET", released |-> TRUE] >>

\* an error of the domain taxonomy: ValueError (invalid identifier, query or
\* configuration; JSONDecodeError taken for the malformed response),
\* LookupError (not found) or ImdbAPIError (upstream error)
InTaxonomy(exc) ==
    IsValueError(exc) \/ IsLookupError(exc) \/ exc = "ImdbAPIError"

\* C28: every public operation, for every combination of HEAD and GET
\* statuses and bodies of the transport, ends with a result or with an error
\* of the domain taxonomy; no other failure (a TypeError or AttributeError
\* from an absent payload or a failed match) reaches the caller.
C28_OnlyTaxonomyErrors ==
    \A t \in Tasks :
        (/\ task[t].pc = "done"
         /\ task[t].op \in OperationNames
         /\ ~Occurs(task[t].events, "AUTH_FAILED")) =>
            \/ task[t].out.kind = "return"
            \/ task[t].out.kind = "raise" /\ InTaxonomy(task[t].out.exc)

EpisodeExcluded == Raise("LookupError", "Title not found. Title was an episode")
ExclusionConfigured ==
    Raise("ValueError", "exclude_episodes is current set to true")

\* C29: get_title and get_title_episodes agree on whether the client
\* excludes episodes: for every value given as exclude_episodes, get_title
\* refuses a tvEpisode resource if and only if get_title_episodes fails
\* with the configuration error.
C29_ExclusionAgrees ==
    \A t, u \in DOMAIN task :
        (/\ task[t].op = GET_TITLE
         /\ task[t].pc = "done"
         /\ Occurs(task[t].events, "TEXT_DONE")
         /\ task[t].body.value = PyDict(<< <<"resource", TitleOfType("tvEpisode")>> >>)
         /\ task[u].op = GET_TITLE_EPISODES
         /\ task[u].pc # "idle") =>
            (task[t].out = EpisodeExcluded <=> task[u].out = ExclusionConfigured)

====
